---- MODULE Spec2Model ----
(***************************************************************************)
(* QtGraphEdge (src/lib_gui/qt/view/graphElements/QtGraphEdge.cpp): one    *)
(* edge of the graph view.  The state is the edge object (its fields, its  *)
(* child line item, its z-value), the two nodes its weak references point  *)
(* at, and the toolkit's hover state.  Every handler is an operator on an  *)
(* execution context x = [e, log, crashed]: e is the edge object, log the  *)
(* handler's observable effects in order (messages dispatched, warnings,   *)
(* line items created, casts, lines drawn, null dereferences).             *)
(***************************************************************************)
EXTENDS Integers, Sequences, FiniteSets, TLC

VARIABLES
    edge,           \* the QtGraphEdge object
    nodes,          \* the QtGraphNode objects the edge refers to
    straightTypes,  \* the edge types GraphViewStyle draws as straight lines
    hovered,        \* the toolkit's hover state of the item
    running,        \* FALSE once the process has crashed
    out             \* the last handler: its name and its effects

vars == <<edge, nodes, straightTypes, hovered, running, out>>

\* ------------------------------------------------------------ bounds
MaxWeight == 2
MaxCoord == 1

\* ------------------------------------------------------------ domains
\* A pointer is a sequence of length at most one: NULL, or <<object>>.
NULL == <<>>

EDGE_AGGREGATION == "EDGE_AGGREGATION"
EDGE_INHERITANCE == "EDGE_INHERITANCE"
EDGE_CALL == "EDGE_CALL"
EdgeTypes == {EDGE_AGGREGATION, EDGE_INHERITANCE, EDGE_CALL}

DIRECTION_NONE == "DIRECTION_NONE"
DIRECTION_FORWARD == "DIRECTION_FORWARD"
DIRECTION_BACKWARD == "DIRECTION_BACKWARD"
Directions == {DIRECTION_NONE, DIRECTION_FORWARD, DIRECTION_BACKWARD}

\* The node passed to the constructor as `owner` and the one passed as `target`.
OwnerArg == "ownerArg"
TargetArg == "targetArg"
NodeIds == {OwnerArg, TargetArg}

\* The Edge objects the constructor may be given (NULL: a bundle of edges).
EdgeData ==
    {[id |-> 11, type |-> t, from |-> "fromName", to |-> "toName",
      aggregationIds |-> IF t = EDGE_AGGREGATION THEN {21, 22} ELSE {}] : t \in EdgeTypes}

Weights == 0..MaxWeight

\* Scene coordinates are reals; they are kept in halves (3 is 1.5).
HalfCoords == (-1)..(2 * MaxCoord + 1)
ScenePos == HalfCoords \X HalfCoords

\* ------------------------------------------------------------ collaborators
\* Edge::getTypeString
getTypeString(type) ==
    CASE type = EDGE_AGGREGATION -> "aggregation"
      [] type = EDGE_INHERITANCE -> "inheritance"
      [] type = EDGE_CALL -> "call"

\* GraphViewStyle::getStyleForEdgeType: the route kind is a matter of the edge
\* type; the active flag selects the emphasis (width, colour, z-value).
getStyleForEdgeType(type, isActive, isFocused) ==
    [type |-> type, isActive |-> isActive, isFocused |-> isFocused,
     isStraight |-> type \in straightTypes,
     zValue |-> <<type, isActive>>]

\* QString::number on a size_t: the decimal digits.
DigitChar == <<"0", "1", "2", "3", "4", "5", "6", "7", "8", "9">>

RECURSIVE QStringNumber(_)
QStringNumber(n) ==
    IF n < 10 THEN <<DigitChar[n + 1]>>
    ELSE QStringNumber(n \div 10) \o <<DigitChar[(n % 10) + 1]>>

\* The int conversion of a real coordinate (kept in halves): towards zero.
ToInt(h) == IF h >= 0 THEN h \div 2 ELSE -((-h) \div 2)

\* Vec2i(event->scenePos().x(), event->scenePos().y())
Vec2i(pos) == <<ToInt(pos[1]), ToInt(pos[2])>>

\* (a - b).getLength() > 1.0f on integer vectors: the Euclidean length.
LengthExceedsOne(a, b) ==
    LET dx == a[1] - b[1]
        dy == a[2] - b[2]
    IN dx * dx + dy * dy > 1

\* std::weak_ptr::lock: the node, or NULL once it has expired.
lock(w) == IF nodes[w].alive THEN <<w>> ELSE NULL

\* ------------------------------------------------------------ contexts
Ctx(e) == [e |-> e, log |-> <<>>, crashed |-> FALSE]

Log(x, entry) == [x EXCEPT !.log = Append(@, entry)]

\* A call through a null pointer: undefined behaviour that ends the process.
Crash(x, what) == [Log(x, [ev |-> "nullDeref", what |-> what]) EXCEPT !.crashed = TRUE]

Events(log, ev) == {i \in 1..Len(log) : log[i].ev = ev}

\* ------------------------------------------------------------ line items
QtStraightLineItem == "QtStraightLineItem"
QtAngledLineItem == "QtAngledLineItem"

\* new QtStraightLineItem(this) / new QtAngledLineItem(this)
NewLineItem(kind) ==
    [kind |-> kind, onBack |-> FALSE, horizontalIn |-> FALSE, onFront |-> FALSE,
     route |-> "ROUTE_ANY", pivot |-> "PIVOT_THIRD", line |-> NULL, toolTip |-> <<>>]

\* dynamic_cast<Kind*>(m_child)
dynamic_cast(kind, child) ==
    IF child # NULL /\ child[1].kind = kind THEN child ELSE NULL

\* ------------------------------------------------------------ QtGraphEdge
getData(e) == e.m_data

getOwner(e) == e.m_owner

getTarget(e) == e.m_target

getIsActive(e) == e.m_isActive

\* Mutant: the check passes unless both nodes are gone.
NodeIsNull_BothOnly(owner, target) == owner = NULL /\ target = NULL

\* updateLine, line 73: the defensive null check.
NodeIsNull(owner, target) == owner = NULL \/ target = NULL

\* updateLine, lines 79-87: the type the edge is styled by.
EdgeTypeOf(e) ==
    IF getData(e) # NULL THEN getData(e)[1].type ELSE EDGE_AGGREGATION

\* Mutant: a line item is created on every call.
CreateChild_EveryCall(x, kind) ==
    Log([x EXCEPT !.e.m_child = <<NewLineItem(kind)>>], [ev |-> "new", kind |-> kind])

\* updateLine, lines 93-96 and 107-110: the child is created when there is none.
CreateChild(x, kind) ==
    IF x.e.m_child = NULL
    THEN Log([x EXCEPT !.e.m_child = <<NewLineItem(kind)>>], [ev |-> "new", kind |-> kind])
    ELSE x

\* updateLine, lines 91-104: the straight route.
UpdateStraight(x, owner, target, style) ==
    LET x1 == CreateChild(x, QtStraightLineItem)
        showArrow == x.e.m_direction # DIRECTION_NONE
        child == dynamic_cast(QtStraightLineItem, x1.e.m_child)
        x2 == Log(x1, [ev |-> "cast", to |-> QtStraightLineItem,
                       child |-> x1.e.m_child[1].kind, isStraight |-> style.isStraight])
        line == [from |-> x.e.m_owner, to |-> x.e.m_target, weight |-> x.e.m_weight,
                 style |-> style, showArrow |-> showArrow]
    IN IF child = NULL THEN Crash(x2, "m_child")
       ELSE IF owner = NULL \/ target = NULL THEN Crash(x2, "node")
       ELSE Log([x2 EXCEPT !.e.m_child[1].line = <<line>>], [ev |-> "draw", line |-> line])

\* updateLine, lines 105-146: the angled route.
UpdateAngled(x, owner, target, type, style) ==
    LET e == x.e
        x1 == CreateChild(x, QtAngledLineItem)
        child == dynamic_cast(QtAngledLineItem, x1.e.m_child)
        x2 == Log(x1, [ev |-> "cast", to |-> QtAngledLineItem,
                       child |-> x1.e.m_child[1].kind, isStraight |-> style.isStraight])
        sameParent == nodes[e.m_owner].lastParent = nodes[e.m_target].lastParent
        c0 == child[1]
        c1 == IF e.m_fromActive /\ sameParent THEN [c0 EXCEPT !.onBack = TRUE] ELSE c0
        c2 == IF e.m_toActive
              THEN [c1 EXCEPT !.horizontalIn = TRUE,
                              !.onFront = IF sameParent THEN TRUE ELSE @]
              ELSE c1
        c3 == IF type # EDGE_INHERITANCE /\ type # EDGE_AGGREGATION
              THEN [c2 EXCEPT !.route = "ROUTE_HORIZONTAL"] ELSE c2
        c4 == IF type = EDGE_AGGREGATION THEN [c3 EXCEPT !.pivot = "PIVOT_MIDDLE"] ELSE c3
        showArrow == IF type = EDGE_AGGREGATION THEN e.m_direction # DIRECTION_NONE ELSE TRUE
        line == [from |-> e.m_owner, to |-> e.m_target, weight |-> e.m_weight,
                 style |-> style, showArrow |-> showArrow]
    IN IF child = NULL THEN Crash(x2, "m_child")
       ELSE IF owner = NULL \/ target = NULL THEN Crash(x2, "node")
       ELSE Log([x2 EXCEPT !.e.m_child = <<[c4 EXCEPT !.line = <<line>>]>>],
                [ev |-> "draw", line |-> line])

\* Mutant: the plural only above one.
ToolTipText_PluralAboveOne(type, weight) ==
    <<getTypeString(type)>> \o
    (IF type = EDGE_AGGREGATION
     THEN <<": ">> \o QStringNumber(weight) \o <<" edge">> \o
          (IF weight > 1 THEN <<"s">> ELSE <<>>)
     ELSE <<>>)

\* updateLine, lines 148-156: the tooltip text, in pieces.
ToolTipText(type, weight) ==
    <<getTypeString(type)>> \o
    (IF type = EDGE_AGGREGATION
     THEN <<": ">> \o QStringNumber(weight) \o <<" edge">> \o
          (IF weight # 1 THEN <<"s">> ELSE <<>>)
     ELSE <<>>)

updateLine(x) ==
    LET e == x.e
        owner == lock(e.m_owner)
        target == lock(e.m_target)
    IN IF NodeIsNull(owner, target) THEN Log(x, [ev |-> "warning"])
       ELSE LET type == EdgeTypeOf(e)
                style == getStyleForEdgeType(type, e.m_isActive, FALSE)
                x1 == IF style.isStraight
                      THEN UpdateStraight(x, owner, target, style)
                      ELSE UpdateAngled(x, owner, target, type, style)
            IN IF x1.crashed THEN x1
               ELSE [x1 EXCEPT !.e.m_child[1].toolTip = ToolTipText(type, e.m_weight),
                               !.e.zValue = <<style.zValue>>]

\* The constructor.  Both nodes are alive when the edge is built: it reads them.
QtGraphEdge(owner, target, data, weight, isActive, direction) ==
    LET e0 == [m_data |-> data, m_owner |-> owner, m_target |-> target, m_child |-> NULL,
               m_isActive |-> isActive, m_fromActive |-> FALSE, m_toActive |-> FALSE,
               m_weight |-> weight, m_direction |-> direction,
               m_mousePos |-> <<0, 0>>, m_mouseMoved |-> FALSE, zValue |-> NULL]
        e1 == IF direction = DIRECTION_BACKWARD
              THEN [e0 EXCEPT !.m_owner = e0.m_target, !.m_target = e0.m_owner]
              ELSE e0
        e2 == [e1 EXCEPT !.m_fromActive = nodes[lock(e1.m_owner)[1]].isActive,
                         !.m_toActive = nodes[lock(e1.m_target)[1]].isActive]
    IN updateLine(Ctx(e2))

setIsActive(x, isActive) ==
    IF x.e.m_isActive # isActive
    THEN updateLine([x EXCEPT !.e.m_isActive = isActive])
    ELSE x

\* ub: what the build does on the null dereference of line 182.
onClick(x, ub) ==
    LET e == x.e
    IN IF getData(e) = NULL
       THEN LET node == IF e.m_direction = DIRECTION_BACKWARD THEN e.m_owner ELSE e.m_target
                n == lock(node)
            IN IF n = NULL
               THEN IF ub.crash THEN Crash(x, "node")
                    ELSE Log(Log(x, [ev |-> "nullDeref", what |-> "node"]),
                             [ev |-> "dispatch",
                              msg |-> [kind |-> "MessageGraphNodeBundleSplit",
                                       tokenId |-> ub.value]])
               ELSE Log(x, [ev |-> "dispatch",
                            msg |-> [kind |-> "MessageGraphNodeBundleSplit",
                                     tokenId |-> nodes[n[1]].tokenId]])
       ELSE LET d == getData(e)[1]
            IN Log(x, [ev |-> "dispatch",
                       msg |-> [kind |-> "MessageActivateEdge", id |-> d.id, type |-> d.type,
                                fromName |-> d.from, toName |-> d.to,
                                aggregationIds |->
                                    IF d.type = EDGE_AGGREGATION THEN d.aggregationIds ELSE {}]])

\* Mutant: the stored active state is not put back.
focusIn_NoRestore(x) == setIsActive(x, TRUE)

focusIn(x) ==
    LET isActive == x.e.m_isActive
        x1 == setIsActive(x, TRUE)
    IN IF x1.crashed THEN x1 ELSE [x1 EXCEPT !.e.m_isActive = isActive]

focusOut(x) == updateLine(x)

mousePressEvent(x, pos) ==
    [x EXCEPT !.e.m_mousePos = Vec2i(pos), !.e.m_mouseMoved = FALSE]

\* Mutant: the flag follows the last move.
mouseMoveEvent_LastMove(x, pos) ==
    [x EXCEPT !.e.m_mouseMoved = LengthExceedsOne(Vec2i(pos), x.e.m_mousePos)]

mouseMoveEvent(x, pos) ==
    LET mousePos == Vec2i(pos)
    IN IF LengthExceedsOne(mousePos, x.e.m_mousePos)
       THEN [x EXCEPT !.e.m_mouseMoved = TRUE]
       ELSE x

mouseReleaseEvent(x, ub) ==
    IF ~x.e.m_mouseMoved THEN onClick(x, ub) ELSE x

\* Mutant: the local focusIn runs before the data is looked at.
hoverEnterEvent_FocusFirst(x) ==
    IF getData(x.e) = NULL THEN focusIn(x)
    ELSE Log(focusIn(x),
             [ev |-> "dispatch",
              msg |-> [kind |-> "MessageFocusIn", ids |-> <<getData(x.e)[1].id>>]])

hoverEnterEvent(x) ==
    IF getData(x.e) = NULL THEN focusIn(x)
    ELSE Log(x, [ev |-> "dispatch",
                 msg |-> [kind |-> "MessageFocusIn", ids |-> <<getData(x.e)[1].id>>]])

hoverLeaveEvent(x) ==
    IF getData(x.e) = NULL THEN focusOut(x)
    ELSE Log(x, [ev |-> "dispatch",
                 msg |-> [kind |-> "MessageFocusOut", ids |-> <<getData(x.e)[1].id>>]])

setDirection(x, direction) ==
    IF x.e.m_direction # direction
    THEN updateLine([x EXCEPT !.e.m_direction = direction])
    ELSE x

\* ------------------------------------------------------------ the state machine
\* What the build may do on the null dereference: crash, or go on with any id.
UBOutcomes ==
    {[crash |-> TRUE, value |-> 0]} \cup {[crash |-> FALSE, value |-> v] : v \in 0..2}

\* The line the child shows (NULL: no child, or nothing drawn yet).
DrawnLine(e) == IF e.m_child = NULL THEN NULL ELSE e.m_child[1].line

\* A handler ran to its end (or to a crash): x is its final context.  For a
\* focusIn, out also keeps the line as it was drawn before.
Ran(op, x) ==
    /\ edge' = x.e
    /\ running' = ~x.crashed
    /\ out' = [op |-> op, log |-> x.log,
               before |-> IF op = "focusIn" THEN DrawnLine(edge) ELSE NULL]

\* The nodes as the constructor finds them: alive, with their token ids.
NodeStates ==
    {ns \in [NodeIds -> [alive : {TRUE}, isActive : BOOLEAN,
                         lastParent : {"parent1", "parent2"}, tokenId : {1, 2}]] :
        /\ ns[OwnerArg].tokenId = 1
        /\ ns[TargetArg].tokenId = 2
        /\ ns[OwnerArg].lastParent = "parent1"}

\* Two active nodes under one parent: every flag of the angled route is set.
ActiveSiblings ==
    {ns \in NodeStates : \A n \in NodeIds : ns[n].isActive /\ ns[n].lastParent = "parent1"}

DataArgs == {NULL} \cup {<<d>> : d \in EdgeData}

\* The state after construction.  Only the style of the edge's own type is
\* ever asked for, so straightTypes ranges over the sets that differ on it.
Constructed(Ns, Datas, Ws, Actives, Dirs) ==
    /\ nodes \in Ns
    /\ hovered = FALSE
    /\ running = TRUE
    /\ \E data \in Datas, weight \in Ws, isActive \in Actives, direction \in Dirs :
          /\ straightTypes \in SUBSET {EdgeTypeOf([m_data |-> data])}
          /\ LET x == QtGraphEdge(OwnerArg, TargetArg, data, weight, isActive, direction)
             IN /\ edge = x.e
                /\ out = [op |-> "QtGraphEdge", log |-> x.log, before |-> NULL]

SetIsActive(isActive) ==
    /\ running
    /\ Ran("setIsActive", setIsActive(Ctx(edge), isActive))
    /\ UNCHANGED <<nodes, straightTypes, hovered>>

SetDirection(direction) ==
    /\ running
    /\ Ran("setDirection", setDirection(Ctx(edge), direction))
    /\ UNCHANGED <<nodes, straightTypes, hovered>>

FocusIn ==
    /\ running
    /\ Ran("focusIn", focusIn(Ctx(edge)))
    /\ UNCHANGED <<nodes, straightTypes, hovered>>

FocusOut ==
    /\ running
    /\ Ran("focusOut", focusOut(Ctx(edge)))
    /\ UNCHANGED <<nodes, straightTypes, hovered>>

MousePressEvent(pos) ==
    /\ running
    /\ Ran("mousePressEvent", mousePressEvent(Ctx(edge), pos))
    /\ UNCHANGED <<nodes, straightTypes, hovered>>

MouseMoveEvent(pos) ==
    /\ running
    /\ Ran("mouseMoveEvent", mouseMoveEvent(Ctx(edge), pos))
    /\ UNCHANGED <<nodes, straightTypes, hovered>>

MouseReleaseEvent(ub) ==
    /\ running
    /\ Ran("mouseReleaseEvent", mouseReleaseEvent(Ctx(edge), ub))
    /\ UNCHANGED <<nodes, straightTypes, hovered>>

\* The toolkit delivers hover-enter and hover-leave alternately.
HoverEnterEvent ==
    /\ running
    /\ ~hovered
    /\ hovered' = TRUE
    /\ Ran("hoverEnterEvent", hoverEnterEvent(Ctx(edge)))
    /\ UNCHANGED <<nodes, straightTypes>>

HoverLeaveEvent ==
    /\ running
    /\ hovered
    /\ hovered' = FALSE
    /\ Ran("hoverLeaveEvent", hoverLeaveEvent(Ctx(edge)))
    /\ UNCHANGED <<nodes, straightTypes>>

\* The last shared_ptr to a node is released elsewhere: the weak reference expires.
NodeExpires(n) ==
    /\ running
    /\ nodes[n].alive
    /\ nodes' = [nodes EXCEPT ![n].alive = FALSE]
    /\ out' = [op |-> "nodeExpires", log |-> <<>>, before |-> NULL]
    /\ UNCHANGED <<edge, straightTypes, hovered, running>>

\* The edge in the view: every handler but the pointer's travel, which
\* SpecMouse follows; the nodes are two active siblings.
Init == Constructed(ActiveSiblings, DataArgs, Weights, BOOLEAN, Directions)

Next ==
    \/ \E isActive \in BOOLEAN : SetIsActive(isActive)
    \/ \E direction \in Directions : SetDirection(direction)
    \/ FocusIn
    \/ FocusOut
    \/ \E ub \in UBOutcomes : MouseReleaseEvent(ub)
    \/ HoverEnterEvent
    \/ HoverLeaveEvent
    \/ \E n \in NodeIds : NodeExpires(n)

Spec == Init /\ [][Next]_vars

\* The routing: every node state, one weight; the operations that redraw.
InitRoute == Constructed(NodeStates, DataArgs, {1}, BOOLEAN, Directions)

NextRoute ==
    \/ \E isActive \in BOOLEAN : SetIsActive(isActive)
    \/ \E direction \in Directions : SetDirection(direction)
    \/ FocusIn
    \/ FocusOut
    \/ \E n \in NodeIds : NodeExpires(n)

SpecRoute == InitRoute /\ [][NextRoute]_vars

\* The pointer: press, move, release on a forward edge, with or without data.
InitMouse ==
    Constructed(ActiveSiblings, {NULL, <<CHOOSE d \in EdgeData : d.type = EDGE_CALL>>},
                {1}, {FALSE}, {DIRECTION_FORWARD})

NextMouse ==
    \/ \E pos \in ScenePos : MousePressEvent(pos)
    \/ \E pos \in ScenePos : MouseMoveEvent(pos)
    \/ \E ub \in UBOutcomes : MouseReleaseEvent(ub)
    \/ \E n \in NodeIds : NodeExpires(n)

SpecMouse == InitMouse /\ [][NextMouse]_vars

\* ------------------------------------------------------------ the claims
AllAlive == \A n \in NodeIds : nodes[n].alive

Messages(log) == {log[i].msg : i \in Events(log, "dispatch")}

DrawnActive(e) == DrawnLine(e) # NULL /\ DrawnLine(e)[1].style.isActive

Draws(log) == {log[i].line : i \in Events(log, "draw")}

\* C1: a mouseReleaseEvent with m_mouseMoved false dispatches exactly one
\* message, MessageActivateEdge (id, type, from-name, to-name of the data) when
\* the edge has data and MessageGraphNodeBundleSplit when it has none; with
\* m_mouseMoved true it dispatches nothing.
C1_ReleaseDispatchesOneMessage ==
    out.op = "mouseReleaseEvent" =>
        IF edge.m_mouseMoved
        THEN Events(out.log, "dispatch") = {}
        ELSE /\ Cardinality(Events(out.log, "dispatch")) = 1
             /\ \A m \in Messages(out.log) :
                    IF getData(edge) # NULL
                    THEN /\ m.kind = "MessageActivateEdge"
                         /\ m.id = getData(edge)[1].id
                         /\ m.type = getData(edge)[1].type
                         /\ m.fromName = getData(edge)[1].from
                         /\ m.toName = getData(edge)[1].to
                    ELSE m.kind = "MessageGraphNodeBundleSplit"

\* C2: on an edge with data, hoverEnterEvent dispatches one MessageFocusIn and
\* hoverLeaveEvent one MessageFocusOut, each with the one-element list of the
\* edge's id, and neither redraws nor changes a field; on an edge without data
\* they dispatch nothing and do what focusIn / focusOut do.
C2_HoverForwardsFocus ==
    [][/\ out'.op = "hoverEnterEvent" =>
            IF getData(edge) # NULL
            THEN /\ out'.log = <<[ev |-> "dispatch",
                                  msg |-> [kind |-> "MessageFocusIn",
                                           ids |-> <<getData(edge)[1].id>>]]>>
                 /\ edge' = edge
            ELSE /\ Events(out'.log, "dispatch") = {}
                 /\ edge' = focusIn(Ctx(edge)).e
                 /\ out'.log = focusIn(Ctx(edge)).log
       /\ out'.op = "hoverLeaveEvent" =>
            IF getData(edge) # NULL
            THEN /\ out'.log = <<[ev |-> "dispatch",
                                  msg |-> [kind |-> "MessageFocusOut",
                                           ids |-> <<getData(edge)[1].id>>]]>>
                 /\ edge' = edge
            ELSE /\ Events(out'.log, "dispatch") = {}
                 /\ edge' = focusOut(Ctx(edge)).e
                 /\ out'.log = focusOut(Ctx(edge)).log
      ]_vars

C2_Witness ==
    /\ out.op = "hoverEnterEvent"
    /\ getData(edge) # NULL
    /\ ~edge.m_isActive
    /\ Cardinality(Events(out.log, "dispatch")) = 1

\* C3: an updateLine that finds the owner or the target expired logs a warning
\* and changes nothing: no child is created, the child (route flags, line,
\* tooltip) and the z-value stay as they are, whichever of setIsActive,
\* setDirection, focusIn, focusOut called it.
C3_ExpiredNodeLeavesEdgeUnchanged ==
    [][~AllAlive =>
        /\ edge'.m_child = edge.m_child
        /\ edge'.zValue = edge.zValue
        /\ out'.op = "setIsActive" =>
              out'.log = IF edge'.m_isActive # edge.m_isActive
                         THEN <<[ev |-> "warning"]>> ELSE <<>>
        /\ out'.op = "setDirection" =>
              out'.log = IF edge'.m_direction # edge.m_direction
                         THEN <<[ev |-> "warning"]>> ELSE <<>>
        /\ out'.op = "focusIn" =>
              out'.log = IF edge.m_isActive THEN <<>> ELSE <<[ev |-> "warning"]>>
        /\ out'.op = "focusOut" => out'.log = <<[ev |-> "warning"]>>
      ]_vars

C3_Witness ==
    /\ ~AllAlive
    /\ out.op = "setDirection"
    /\ out.log = <<[ev |-> "warning"]>>
    /\ edge.m_child # NULL
    /\ DrawnLine(edge)[1].showArrow # (edge.m_direction # DIRECTION_NONE)

KindFor(isStraight) == IF isStraight THEN QtStraightLineItem ELSE QtAngledLineItem

IntPart(h) ==
    CHOOSE k \in (-(MaxCoord + 1))..(MaxCoord + 1) :
        IF h >= 0 THEN 2 * k <= h /\ h < 2 * k + 2 ELSE 2 * k >= h /\ h > 2 * k - 2

\* C5: mousePressEvent records the integer scene position (the coordinates cut
\* towards zero) and clears m_mouseMoved; mouseMoveEvent sets m_mouseMoved iff
\* the integer displacement from the recorded position has dx*dx + dy*dy > 1,
\* and never clears it; mouseReleaseEvent leaves the flag and the position as
\* they are and clicks exactly when the flag is clear.
C5_ClickGesture ==
    [][/\ \A pos \in ScenePos :
            MousePressEvent(pos) =>
                /\ edge'.m_mousePos = <<IntPart(pos[1]), IntPart(pos[2])>>
                /\ ~edge'.m_mouseMoved
       /\ \A pos \in ScenePos :
            MouseMoveEvent(pos) =>
                LET dx == IntPart(pos[1]) - edge.m_mousePos[1]
                    dy == IntPart(pos[2]) - edge.m_mousePos[2]
                IN /\ edge'.m_mouseMoved = (edge.m_mouseMoved \/ dx * dx + dy * dy > 1)
                   /\ edge'.m_mousePos = edge.m_mousePos
       /\ out'.op = "mouseReleaseEvent" =>
            /\ edge'.m_mouseMoved = edge.m_mouseMoved
            /\ edge'.m_mousePos = edge.m_mousePos
            /\ (out'.log # <<>>) = ~edge.m_mouseMoved
      ]_vars

C5_Witness ==
    /\ out.op = "mouseMoveEvent"
    /\ edge.m_mouseMoved
    /\ edge.m_mousePos = <<1, 1>>

FocusInThenOut(e) == focusOut(Ctx(focusIn(Ctx(e)).e)).e

\* C6 as claimed: focusIn and focusOut leave m_isActive as it is; focusIn
\* redraws (with the active style) exactly when the edge was inactive; focusOut
\* always redraws with the style of the stored m_isActive; a focusIn followed
\* by a focusOut leaves the edge drawn as before the focusIn.
C6_FocusAsClaimed ==
    [][/\ out'.op \in {"focusIn", "focusOut"} => getIsActive(edge') = getIsActive(edge)
       /\ out'.op = "focusIn" =>
            /\ (Draws(out'.log) # {}) = ~edge.m_isActive
            /\ \A l \in Draws(out'.log) : l.style.isActive
       /\ out'.op = "focusOut" =>
            /\ Draws(out'.log) # {}
            /\ \A l \in Draws(out'.log) : l.style.isActive = edge.m_isActive
       /\ (out.op = "focusIn" /\ out'.op = "focusOut") => DrawnLine(edge') = out.before
      ]_vars

\* C6 as amended: focusIn and focusOut leave m_isActive as it is; while both
\* nodes are alive focusIn redraws (with the active style) exactly when the
\* edge was inactive and focusOut redraws with the style of the stored
\* m_isActive, so that after focusIn and focusOut the line is drawn with the
\* stored style, which is how it was drawn before unless an earlier focusIn
\* had highlighted it; once a node has expired neither redraws.
C6_FocusKeepsActiveState ==
    [][/\ out'.op \in {"focusIn", "focusOut"} => getIsActive(edge') = getIsActive(edge)
       /\ out'.op = "focusIn" =>
            /\ (Draws(out'.log) # {}) = (~edge.m_isActive /\ AllAlive)
            /\ \A l \in Draws(out'.log) : l.style.isActive /\ DrawnLine(edge') = <<l>>
       /\ out'.op = "focusOut" =>
            /\ (Draws(out'.log) # {}) = AllAlive
            /\ \A l \in Draws(out'.log) :
                  l.style.isActive = edge.m_isActive /\ DrawnLine(edge') = <<l>>
       /\ LET after == DrawnLine(FocusInThenOut(edge))
          IN IF AllAlive
             THEN /\ after # NULL
                  /\ after[1].style.isActive = edge.m_isActive
                  /\ (DrawnActive(edge) = edge.m_isActive) => after = DrawnLine(edge)
             ELSE after = DrawnLine(edge)
      ]_vars

C6_Witness ==
    /\ out.op = "focusIn"
    /\ AllAlive
    /\ ~edge.m_isActive
    /\ DrawnActive(edge)
    /\ Draws(out.log) # {}

\* C7: the tooltip is the type string, followed for an aggregation edge (an
\* edge without data is one) by ": <weight> edge" and an "s" iff the weight is
\* not 1; the direction and the active state play no part.
C7_ToolTipByTypeAndWeight ==
    edge.m_child # NULL =>
        LET tip == edge.m_child[1].toolTip
            type == IF edge.m_data = NULL THEN EDGE_AGGREGATION ELSE edge.m_data[1].type
            w == edge.m_weight
        IN IF type = EDGE_AGGREGATION
           THEN /\ tip = <<getTypeString(type), ": ", ToString(w), " edge">> \o
                         (IF w = 1 THEN <<>> ELSE <<"s">>)
                /\ w = 0 => SubSeq(tip, 3, 5) = <<"0", " edge", "s">>
                /\ w = 1 => SubSeq(tip, 3, Len(tip)) = <<"1", " edge">>
           ELSE tip = <<getTypeString(type)>>

C7_Witness ==
    /\ out.op = "setDirection"
    /\ Draws(out.log) # {}
    /\ edge.m_data = NULL
    /\ edge.m_isActive
    /\ edge.m_weight = 0
    /\ edge.m_child # NULL
    /\ Len(edge.m_child[1].toolTip) = 5

\* C8: a click on an edge without data asks to split the bundle at the node
\* passed to the constructor as target, whatever the construction direction
\* and the setDirection calls since.
C8_SplitAtConstructorTarget ==
    (/\ out.op = "mouseReleaseEvent"
     /\ getData(edge) = NULL
     /\ Events(out.log, "nullDeref") = {})
    => \A m \in Messages(out.log) : m.tokenId = nodes[TargetArg].tokenId

\* C9: no operation after construction calls through the null pointer of an
\* expired owner or target.
C9_NoExpiredNodeDereferenced ==
    \A i \in Events(out.log, "nullDeref") : out.log[i].what # "node"

\* C10: while the pointer hovers over an edge without data the line stays
\* drawn with the active style, whatever setIsActive and setDirection calls
\* come in between.
C10_HoverHighlightLasts ==
    [][(/\ hovered
        /\ getData(edge) = NULL
        /\ AllAlive
        /\ DrawnActive(edge)
        /\ out'.op \in {"setIsActive", "setDirection"})
       => DrawnActive(edge')]_vars

====
